---- MODULE Spec2Model ----
(***************************************************************************)
(* BinaryTreeMap<K, V> of src/src/lib.rs: an unbalanced binary search tree *)
(* with insert, delete and get.  Option<T> is a sequence of length 0       *)
(* (None) or 1 (Some(x)); Result<T, MapError> is [ok |-> x] or [err |-> e].*)
(***************************************************************************)
EXTENDS Integers, Sequences, FiniteSets, TLC

\* Bounds of the model: keys 1..MaxKey, values 1..MaxVal.
MaxKey == 4
MaxVal == 2

Keys == 1..MaxKey
Vals == 1..MaxVal

\* Option<T>
None == <<>>
Some(x) == <<x>>
is_some(o) == Len(o) = 1
unwrap(o) == o[1]

\* Result<T, MapError>
KeyNotFound == "KeyNotFound"
Ok(x) == [ok |-> x]
Err(e) == [err |-> e]

\* Option::ok_or
ok_or(o, e) == IF is_some(o) THEN Ok(unwrap(o)) ELSE Err(e)

\* Ord::cmp on the keys
Less == "Less"
Equal == "Equal"
Greater == "Greater"
cmp(a, b) == IF a < b THEN Less ELSE IF a > b THEN Greater ELSE Equal

\* struct Node<K, V>
Node(k, v, l, r) == [key |-> k, value |-> v, left |-> l, right |-> r]

VARIABLES
    root,     \* BinaryTreeMap.root : Option<Box<Node<K, V>>>
    prev,     \* root as it was when the last call was made
    op,       \* the last call: "new", "insert", "delete" or "get"
    key,      \* the last call's key argument (0 for new)
    value,    \* the last insert's value argument (0 otherwise)
    result,   \* what the last delete or get returned (None otherwise)
    model     \* the key-to-value function the calls so far describe

vars == <<root, prev, op, key, value, result, model>>

(***************************************************************************)
(* Faulty variants of insert_recursive, used to show that the properties   *)
(* below depend on it.  bug is one of:                                     *)
(*   "swapped"    a smaller key goes right and a greater key goes left     *)
(*   "keeps"      an equal key keeps its old value                         *)
(*   "duplicates" an equal key is sent to the right like a greater one     *)
(***************************************************************************)
RECURSIVE insert_recursive_bug(_, _, _, _)
insert_recursive_bug(node, k, v, bug) ==
    IF node = None
    THEN Some(Node(k, v, None, None))
    ELSE LET n == unwrap(node)
             c == cmp(k, n.key)
             goes == CASE bug = "swapped" /\ c = Less -> Greater
                       [] bug = "swapped" /\ c = Greater -> Less
                       [] bug = "duplicates" /\ c = Equal -> Greater
                       [] OTHER -> c
         IN
         CASE goes = Equal ->
                Some([n EXCEPT !.value = IF bug = "keeps" THEN n.value ELSE v])
           [] goes = Less ->
                Some([n EXCEPT !.left = insert_recursive_bug(n.left, k, v, bug)])
           [] goes = Greater ->
                Some([n EXCEPT !.right = insert_recursive_bug(n.right, k, v, bug)])

insert_recursive_swapped(node, k, v) == insert_recursive_bug(node, k, v, "swapped")
insert_recursive_keeps(node, k, v) == insert_recursive_bug(node, k, v, "keeps")
insert_recursive_duplicates(node, k, v) == insert_recursive_bug(node, k, v, "duplicates")

\* fn insert_recursive(node, key, value) -> Option<Box<Node<K, V>>>
RECURSIVE insert_recursive(_, _, _)
insert_recursive(node, k, v) ==
    IF node = None
    THEN Some(Node(k, v, None, None))
    ELSE LET n == unwrap(node) IN
         CASE cmp(k, n.key) = Equal ->
                Some([n EXCEPT !.value = v])
           [] cmp(k, n.key) = Less ->
                Some([n EXCEPT !.left = insert_recursive(n.left, k, v)])
           [] cmp(k, n.key) = Greater ->
                Some([n EXCEPT !.right = insert_recursive(n.right, k, v)])

\* Faulty variant of extract_min: the minimum's right subtree is dropped
\* instead of taking the minimum's place.
RECURSIVE extract_min_drops_right(_)
extract_min_drops_right(node) ==
    IF node.left = None
    THEN <<node.value, node.key, None>>
    ELSE LET m == extract_min_drops_right(unwrap(node.left)) IN
         <<m[1], m[2], Some([node EXCEPT !.left = m[3]])>>

\* fn extract_min(node: Box<Node>) -> (V, K, Option<Box<Node>>)
RECURSIVE extract_min(_)
extract_min(node) ==
    IF node.left = None
    THEN <<node.value, node.key, node.right>>
    ELSE LET m == extract_min(unwrap(node.left)) IN
         <<m[1], m[2], Some([node EXCEPT !.left = m[3]])>>

(***************************************************************************)
(* Faulty variants of delete_recursive.  bug is one of:                    *)
(*   "successor_value" with two children, the promoted successor's value   *)
(*                     is reported instead of the matched node's           *)
(*   "keeps_leaf"      a matched leaf is left in place                     *)
(*   "drops_child"     a matched node with one child is replaced by the    *)
(*                     empty link                                          *)
(***************************************************************************)
RECURSIVE delete_recursive_bug(_, _, _, _)
delete_recursive_bug(node, k, deleted_value, bug) ==
    IF node = None
    THEN [node |-> None, deleted_value |-> deleted_value]
    ELSE LET n == unwrap(node) IN
         CASE cmp(k, n.key) = Less ->
                LET d == delete_recursive_bug(n.left, k, deleted_value, bug) IN
                [node |-> Some([n EXCEPT !.left = d.node]),
                 deleted_value |-> d.deleted_value]
           [] cmp(k, n.key) = Greater ->
                LET d == delete_recursive_bug(n.right, k, deleted_value, bug) IN
                [node |-> Some([n EXCEPT !.right = d.node]),
                 deleted_value |-> d.deleted_value]
           [] cmp(k, n.key) = Equal ->
                CASE n.left = None /\ n.right = None ->
                       [deleted_value |-> Some(n.value),
                        node |-> IF bug = "keeps_leaf" THEN Some(n) ELSE None]
                  [] n.left # None /\ n.right = None ->
                       [deleted_value |-> Some(n.value),
                        node |-> IF bug = "drops_child" THEN None ELSE n.left]
                  [] n.left = None /\ n.right # None ->
                       [deleted_value |-> Some(n.value),
                        node |-> IF bug = "drops_child" THEN None ELSE n.right]
                  [] n.left # None /\ n.right # None ->
                       LET m == extract_min(unwrap(n.right)) IN
                       [deleted_value |->
                            IF bug = "successor_value" THEN Some(m[1])
                            ELSE Some(n.value),
                        node |-> Some(Node(m[2], m[1], n.left, m[3]))]

delete_recursive_successor_value(node, k, deleted_value) ==
    delete_recursive_bug(node, k, deleted_value, "successor_value")
delete_recursive_keeps_leaf(node, k, deleted_value) ==
    delete_recursive_bug(node, k, deleted_value, "keeps_leaf")
delete_recursive_drops_child(node, k, deleted_value) ==
    delete_recursive_bug(node, k, deleted_value, "drops_child")

\* fn delete_recursive(node, key, deleted_value: &mut Option<V>): the new
\* link and the content of *deleted_value on return.
RECURSIVE delete_recursive(_, _, _)
delete_recursive(node, k, deleted_value) ==
    IF node = None
    THEN [node |-> None, deleted_value |-> deleted_value]
    ELSE LET n == unwrap(node) IN
         CASE cmp(k, n.key) = Less ->
                LET d == delete_recursive(n.left, k, deleted_value) IN
                [node |-> Some([n EXCEPT !.left = d.node]),
                 deleted_value |-> d.deleted_value]
           [] cmp(k, n.key) = Greater ->
                LET d == delete_recursive(n.right, k, deleted_value) IN
                [node |-> Some([n EXCEPT !.right = d.node]),
                 deleted_value |-> d.deleted_value]
           [] cmp(k, n.key) = Equal ->
                [deleted_value |-> Some(n.value),
                 node |->
                    CASE n.left = None /\ n.right = None -> None
                      [] n.left # None /\ n.right = None -> n.left
                      [] n.left = None /\ n.right # None -> n.right
                      [] n.left # None /\ n.right # None ->
                           LET m == extract_min(unwrap(n.right)) IN
                           Some(Node(m[2], m[1], n.left, m[3]))]

\* Faulty variant of get_recursive: the search goes right for a smaller key
\* and left for a greater one.
RECURSIVE get_recursive_swapped(_, _)
get_recursive_swapped(node, k) ==
    IF node = None
    THEN Err(KeyNotFound)
    ELSE LET n == unwrap(node) IN
         CASE cmp(k, n.key) = Equal -> Ok(n.value)
           [] cmp(k, n.key) = Less -> get_recursive_swapped(n.right, k)
           [] cmp(k, n.key) = Greater -> get_recursive_swapped(n.left, k)

\* fn get_recursive(&self, node, key) -> Result<&V, MapError>
RECURSIVE get_recursive(_, _)
get_recursive(node, k) ==
    IF node = None
    THEN Err(KeyNotFound)
    ELSE LET n == unwrap(node) IN
         CASE cmp(k, n.key) = Equal -> Ok(n.value)
           [] cmp(k, n.key) = Less -> get_recursive(n.left, k)
           [] cmp(k, n.key) = Greater -> get_recursive(n.right, k)

\* pub fn get(&self, key) -> Result<&V, MapError>
get(k) == get_recursive(root, k)

\* pub fn new() -> Self
Init ==
    /\ root = None
    /\ prev = None
    /\ op = "new"
    /\ key = 0
    /\ value = 0
    /\ result = None
    /\ model = [x \in Keys |-> None]

\* pub fn insert(&mut self, key, value)
insert(k, v) ==
    /\ root' = insert_recursive(root, k, v)
    /\ prev' = root
    /\ op' = "insert"
    /\ key' = k
    /\ value' = v
    /\ result' = None
    /\ model' = [model EXCEPT ![k] = Some(v)]

\* Faulty variant of delete: the root taken out of the map is put back only
\* when a value was deleted, so a miss empties the map.
delete_loses_root(k) ==
    LET d == delete_recursive(root, k, None) IN
    /\ root' = IF d.deleted_value = None THEN None ELSE d.node
    /\ prev' = root
    /\ op' = "delete"
    /\ key' = k
    /\ value' = 0
    /\ result' = Some(ok_or(d.deleted_value, KeyNotFound))
    /\ model' = [model EXCEPT ![k] = None]

\* pub fn delete(&mut self, key) -> Result<V, MapError>
delete(k) ==
    LET d == delete_recursive(root, k, None) IN
    /\ root' = d.node
    /\ prev' = root
    /\ op' = "delete"
    /\ key' = k
    /\ value' = 0
    /\ result' = Some(ok_or(d.deleted_value, KeyNotFound))
    /\ model' = [model EXCEPT ![k] = None]

\* a call of get(&self, key)
Get(k) ==
    /\ root' = root
    /\ prev' = root
    /\ op' = "get"
    /\ key' = k
    /\ value' = 0
    /\ result' = Some(get(k))
    /\ model' = model

Insert == \E k \in Keys, v \in Vals : insert(k, v)
Delete == \E k \in Keys : delete(k)
Lookup == \E k \in Keys : Get(k)

Next == Insert \/ Delete \/ Lookup

Spec == Init /\ [][Next]_vars

(***************************************************************************)
(* Structural vocabulary of the properties.  None of it searches by        *)
(* comparison: a tree is read node by node, whatever order its keys are in.*)
(***************************************************************************)

\* Number of nodes.
RECURSIVE size(_)
size(t) ==
    IF t = None THEN 0
    ELSE 1 + size(unwrap(t).left) + size(unwrap(t).right)

\* The keys held by the nodes of t.
RECURSIVE keys(_)
keys(t) ==
    IF t = None THEN {}
    ELSE {unwrap(t).key} \cup keys(unwrap(t).left) \cup keys(unwrap(t).right)

\* In-order traversal: the sequence of <<key, value>> of the nodes.
RECURSIVE inorder(_)
inorder(t) ==
    IF t = None THEN <<>>
    ELSE inorder(unwrap(t).left)
           \o <<(<<unwrap(t).key, unwrap(t).value>>)>>
           \o inorder(unwrap(t).right)

\* The nodes of t as <<position, key, value>>, a position being the path of
\* "L" and "R" links from the top of t.
RECURSIVE nodes(_)
nodes(t) ==
    IF t = None THEN {}
    ELSE LET n == unwrap(t) IN
         {<<(<<>>), n.key, n.value>>}
           \cup {<<(<<"L">>) \o x[1], x[2], x[3]>> : x \in nodes(n.left)}
           \cup {<<(<<"R">>) \o x[1], x[2], x[3]>> : x \in nodes(n.right)}

\* The link found at position p of t.
RECURSIVE subtree(_, _)
subtree(t, p) ==
    IF p = <<>> THEN t
    ELSE subtree(IF Head(p) = "L" THEN unwrap(t).left ELSE unwrap(t).right,
                 Tail(p))

\* t with the link at position p set to s.
RECURSIVE replace(_, _, _)
replace(t, p, s) ==
    IF p = <<>> THEN s
    ELSE LET n == unwrap(t) IN
         IF Head(p) = "L"
         THEN Some([n EXCEPT !.left = replace(n.left, Tail(p), s)])
         ELSE Some([n EXCEPT !.right = replace(n.right, Tail(p), s)])

\* The tree with its keys and values forgotten.
RECURSIVE shape(_)
shape(t) ==
    IF t = None THEN None
    ELSE Some(Node(0, 0, shape(unwrap(t).left), shape(unwrap(t).right)))

\* The positions of the nodes of t that hold key k.
holders(t, k) == {x[1] : x \in {y \in nodes(t) : y[2] = k}}

\* The values bound to k by the nodes of t.
values_of(t, k) == {x[3] : x \in {y \in nodes(t) : y[2] = k}}

\* The position of the node of t holding k (k held by exactly one node).
position(t, k) == CHOOSE p \in holders(t, k) : TRUE

IsPrefix(p, q) == Len(p) <= Len(q) /\ SubSeq(q, 1, Len(p)) = p

\* The position, within t, of the leftmost node of the non-empty tree t.
RECURSIVE leftmost(_)
leftmost(t) ==
    IF unwrap(t).left = None THEN <<>>
    ELSE <<"L">> \o leftmost(unwrap(t).left)

\* Number of children of a node.
children(n) == (IF n.left = None THEN 0 ELSE 1) + (IF n.right = None THEN 0 ELSE 1)

\* The node that the last call's key is held by in prev.
Matched == unwrap(subtree(prev, position(prev, key)))

\* BST order at every node.
RECURSIVE bst(_)
bst(t) ==
    \/ t = None
    \/ LET n == unwrap(t) IN
       /\ \A x \in keys(n.left) : x < n.key
       /\ \A x \in keys(n.right) : x > n.key
       /\ bst(n.left)
       /\ bst(n.right)

\* What a map holding exactly the bindings of the function f answers for k.
answer(f, k) == IF f[k] = None THEN Err(KeyNotFound) ELSE Ok(unwrap(f[k]))

(***************************************************************************)
(* Properties                                                              *)
(***************************************************************************)

\* C1: after any sequence of insert and delete calls from new(), every node
\* has only smaller keys in its left subtree and only greater keys in its
\* right subtree, and the in-order traversal is strictly increasing in key.
C1_BstOrder ==
    /\ bst(root)
    /\ \A i, j \in 1..Len(inorder(root)) :
          i < j => inorder(root)[i][1] < inorder(root)[j][1]

\* A delete has just removed a node with two children from a tree of four
\* nodes.
C1_Witness ==
    /\ op = "delete"
    /\ size(prev) = 4
    /\ size(root) = 3
    /\ LET N == unwrap(subtree(prev, position(prev, key))) IN
       N.left # None /\ N.right # None

\* C2: the tree agrees with the key-to-value function run alongside it (get(k)
\* is Ok(v) for every key whose latest mutating call was insert(k, v)), and
\* each insert(key, value) makes get(key) yield value, makes the key set the
\* previous one united with {key}, and leaves every other key's value alone.
C2_GetInsertAgreement ==
    /\ \A k \in Keys : get(k) = answer(model, k)
    /\ op = "insert" =>
          /\ get(key) = Ok(value)
          /\ keys(root) = keys(prev) \cup {key}
          /\ \A k \in Keys \ {key} : get(k) = get_recursive(prev, k)

\* An insert has just overwritten the value of a key of a three-node tree.
C2_Witness ==
    /\ op = "insert"
    /\ size(prev) = 3
    /\ key \in keys(prev)
    /\ get_recursive(prev, key) # Ok(value)
    /\ get(key) = Ok(value)

\* C3: delete(k) of a key bound to v returns Ok(v), the value of the matched
\* node and not the promoted successor's; afterwards get(k) is KeyNotFound
\* and every other key that was present still yields its value.
C3_DeletePresent ==
    (op = "delete" /\ key \in keys(prev)) =>
        /\ \A v \in values_of(prev, key) : result = Some(Ok(v))
        /\ get(key) = Err(KeyNotFound)
        /\ \A x \in nodes(prev) : x[2] # key => get(x[2]) = Ok(x[3])

\* A delete has just removed a node with two children, not the root, whose
\* successor carries another value than the node.
C3_Witness ==
    /\ op = "delete"
    /\ key \in keys(prev)
    /\ LET p == position(prev, key)
           N == unwrap(subtree(prev, p)) IN
       /\ p # <<>>
       /\ N.left # None
       /\ N.right # None
       /\ extract_min(unwrap(N.right))[1] # N.value
       /\ result = Some(Ok(N.value))

\* C4: delete(k) of an absent key returns KeyNotFound and leaves the tree as
\* it was: same nodes, keys, values and shape, so the same bindings.
C4_DeleteAbsent ==
    (op = "delete" /\ key \notin keys(prev)) =>
        /\ result = Some(Err(KeyNotFound))
        /\ root = prev
        /\ nodes(root) = nodes(prev)

\* A delete has just missed in a three-node tree, for a key lying between
\* two of its keys.
C4_Witness ==
    /\ op = "delete"
    /\ key \notin keys(prev)
    /\ result = Some(Err(KeyNotFound))
    /\ size(prev) = 3
    /\ \E a, b \in keys(prev) : a < key /\ key < b

\* C5: insert(k, v) of an absent key followed by delete(k) returns Ok(v) and
\* leaves the map as it was before the insert: same keys, same values, same
\* shape; the new key was installed as a leaf.
C5_InsertDeleteRoundTrip ==
    [][(op = "insert" /\ key \notin keys(prev) /\ op' = "delete" /\ key' = key)
        => /\ children(unwrap(subtree(root, position(root, key)))) = 0
           /\ result' = Some(Ok(value))
           /\ root' = prev
           /\ inorder(root') = inorder(prev)
           /\ shape(root') = shape(prev)]_vars

\* A delete has just removed the key whose insertion as a new key of a
\* two-node tree yields exactly the tree it was called on, and returned the
\* value that key had.
C5_Witness ==
    /\ op = "delete"
    /\ key \notin keys(root)
    /\ size(root) = 2
    /\ \E v \in Vals : /\ result = Some(Ok(v))
                       /\ prev = insert_recursive(root, key, v)

\* C6: no two nodes ever hold the same key, and insert(k, v1) followed by
\* insert(k, v2) leaves exactly one node with key k, holding v2, with the key
\* set and the shape of the tree as they were after the first insert.
C6_KeysUnique ==
    /\ [](/\ \A k \in Keys : Cardinality(holders(root, k)) <= 1
          /\ size(root) = Cardinality(keys(root)))
    /\ [][(op = "insert" /\ op' = "insert" /\ key' = key)
           => /\ Cardinality(holders(root', key)) = 1
              /\ values_of(root', key) = {value'}
              /\ keys(root') = keys(root)
              /\ shape(root') = shape(root)]_vars

\* An insert has just given another value to a key held by a node with two
\* children below the root.
C6_Witness ==
    /\ op = "insert"
    /\ key \in keys(prev)
    /\ values_of(prev, key) # {value}
    /\ values_of(root, key) = {value}
    /\ position(prev, key) # <<>>
    /\ children(Matched) = 2

\* C7: get(k) is KeyNotFound exactly when no node holds k (so for every key
\* of a new map) and otherwise the value of the node holding k; a call of get
\* returns that answer and leaves the map as it was.
C7_Get ==
    /\ \A k \in Keys : (get(k) = Err(KeyNotFound)) <=> (k \notin keys(root))
    /\ \A x \in nodes(root) : get(x[2]) = Ok(x[3])
    /\ op = "new" => \A k \in Keys : get(k) = Err(KeyNotFound)
    /\ op = "get" =>
          /\ root = prev
          /\ key \notin keys(prev) => result = Some(Err(KeyNotFound))
          /\ key \in keys(prev) =>
                \A v \in values_of(prev, key) : result = Some(Ok(v))

\* A get has just returned the value of a node two links below the root,
\* reached by one left and one right link.
C7_Witness ==
    /\ op = "get"
    /\ key \in keys(root)
    /\ Len(position(root, key)) = 2
    /\ position(root, key)[1] # position(root, key)[2]
    /\ result = Some(Ok(Matched.value))

\* C8: the root is absent exactly when the key set is empty; an insert leaves
\* the map non-empty, a delete leaves it empty exactly when it was empty or
\* held the deleted key as its only key, and a get leaves it as it was.
C8_EmptyNonEmpty ==
    /\ (root = None) <=> (keys(root) = {})
    /\ op = "new" => root = None
    /\ op = "insert" => root # None
    /\ op = "delete" =>
          ((root = None) <=> (prev = None \/ (size(prev) = 1 /\ keys(prev) = {key})))
    /\ op = "get" => ((root = None) <=> (prev = None))

\* A delete of the only key has just emptied a single-node map.
C8_Witness ==
    /\ op = "delete"
    /\ size(prev) = 1
    /\ keys(prev) = {key}
    /\ root = None

\* C9: when delete(k) matches a node N with two children, N's slot gets a node
\* with the key and value of S, the leftmost and minimum-keyed node of N's
\* right subtree, over N's left subtree and N's right subtree with S's right
\* subtree in S's place; S has no left child; every node other than N, S and
\* those of S's right subtree keeps its key, value and position.
C9_TwoChildren ==
    (op = "delete" /\ key \in keys(prev) /\ children(Matched) = 2) =>
        LET p == position(prev, key)
            N == Matched
            sp == leftmost(N.right)
            S == unwrap(subtree(N.right, sp))
            at == p \o <<"R">> \o sp
        IN
        /\ \A x \in keys(N.right) : S.key <= x
        /\ S.left = None
        /\ root = replace(prev, p,
                     Some(Node(S.key, S.value, N.left, replace(N.right, sp, S.right))))
        /\ <<p, S.key, S.value>> \in nodes(root)
        /\ \A x \in nodes(S.right) : <<at \o x[1], x[2], x[3]>> \in nodes(root)
        /\ \A x \in nodes(prev) :
              (x[1] # p /\ ~IsPrefix(at, x[1])) => x \in nodes(root)
        /\ size(root) = size(prev) - 1

\* A delete has just removed a node with two children whose successor had a
\* right child.
C9_Witness ==
    /\ op = "delete"
    /\ key \in keys(prev)
    /\ children(Matched) = 2
    /\ unwrap(subtree(Matched.right, leftmost(Matched.right))).right # None

\* C10 as stated: when delete(k) matches a node N with at most one child, N's
\* slot gets the empty link or N's only child subtree, every node not on the
\* path from the root to N keeps its key, value and position, and exactly one
\* node is removed.
C10_AsStated ==
    (op = "delete" /\ key \in keys(prev) /\ children(Matched) <= 1) =>
        LET p == position(prev, key)
            N == Matched
            child == IF N.left # None THEN N.left ELSE N.right
        IN
        /\ root = replace(prev, p, child)
        /\ \A x \in nodes(prev) : ~IsPrefix(x[1], p) => x \in nodes(root)
        /\ size(root) = size(prev) - 1

\* C10, amended: when delete(k) matches a node N with at most one child, N's
\* slot gets the empty link or N's only child subtree; every node outside N's
\* subtree keeps its key, value and position; every node of N's child subtree
\* keeps its key, value and place within that subtree, which moves up one
\* link into N's slot; exactly one node is removed.
C10_SpliceOut ==
    (op = "delete" /\ key \in keys(prev) /\ children(Matched) <= 1) =>
        LET p == position(prev, key)
            N == Matched
            child == IF N.left # None THEN N.left ELSE N.right
        IN
        /\ root = replace(prev, p, child)
        /\ \A x \in nodes(prev) : ~IsPrefix(p, x[1]) => x \in nodes(root)
        /\ \A x \in nodes(child) : <<p \o x[1], x[2], x[3]>> \in nodes(root)
        /\ size(root) = size(prev) - 1

\* A delete has just removed a node below the root whose only child had a
\* child of its own.
C10_Witness ==
    /\ op = "delete"
    /\ key \in keys(prev)
    /\ children(Matched) = 1
    /\ position(prev, key) # <<>>
    /\ size(IF Matched.left # None THEN Matched.left ELSE Matched.right) = 2

====
